---------------------------- MODULE Spec2Model ----------------------------
(***************************************************************************)
(* Exam administration backend (src/index.js): question management,        *)
(* exam scheduling, results aggregation, ancillary CRUD and the bulk       *)
(* candidate delete, over a document store (Firestore) and a key-tree      *)
(* store (Realtime Database).  Every `await` of a store call is a point    *)
(* where another request may run, so a handler with several store calls    *)
(* is one action per store call.                                           *)
(***************************************************************************)
EXTENDS Integers, Sequences, FiniteSets, TLC

(* ------------------------------ bounds -------------------------------- *)

\* documents ever created in the Questions sub-collections
MaxQuestions == 3
\* option indices the requests send are 0..MaxAnswerValue
MaxAnswerValue == 1
\* the clock runs from 1 to MaxClock
MaxClock == 2
\* documents ever created in the sub-collections of candidates
MaxAnswers == 2
\* question documents and question orders in the initial states of the
\* results aggregation
MaxTallyQuestions == 2
\* computeTodayResults requests in a behaviour
MaxRuns == 2

\* exam titles, in document-id order
ExamTitles == <<"algebra", "biology">>
Exams == {ExamTitles[i] : i \in 1..Len(ExamTitles)}
\* concurrent addQuestion requests
AddSlots == {"r1", "r2"}

\* concurrent setExamSchedule requests
SchedSlots == {"r1", "r2"}

\* registration ids, in document-id order
Candidates == {1, 2}

NoExam == "none"

(* ------------------------------- state -------------------------------- *)

VARIABLES
  questions,   \* Firestore Exams/{exam}/Questions: set of question documents
  nextQid,     \* next auto-generated question document id
  addReq,      \* addQuestion requests: position and locals of each handler
  lastOp,      \* the last single-call question request and its response
  soloAdds     \* history: per exam, TRUE while its addQuestion requests ran
               \* one after another and no deleteQuestion touched it

VARIABLES
  examDateTime, \* key-tree store ExamDateTime/{title}
  examDoc,      \* Firestore Exams/{title}: the dateTime field of the document
  schedReq,     \* setExamSchedule requests: position and locals of each handler
  serialScheds  \* history: per exam, TRUE while no setExamSchedule request
                \* on it began its writes between the two writes of another

VARIABLES
  now,           \* the clock, in milliseconds since the epoch
  notifications, \* key-tree store Notifications/{id}
  syllabus,      \* key-tree store Syllabus/{id}
  sylReq,        \* the syllabus update or delete request in progress
  crudResp       \* the last response of a notification or syllabus request

VARIABLES
  candDocs,    \* Firestore candidate documents, of the collections
               \* "candidates" and "Candidates"
  subDocs,     \* documents of the sub-collections under candidate documents
  nextAid,     \* next auto-generated sub-collection document id
  resultsTree, \* key-tree store Results/{examId}/{candidateId}
  run,         \* the computeTodayResults request: position and locals
  bulk,        \* the bulk candidate delete request: position and locals
  bulkQuiet    \* history: no other request wrote since the bulk delete began

VARIABLES
  concerns,    \* Firestore collection concerns: the ids of its documents
  readResp     \* the last response of a read request

qvars == <<questions, nextQid, addReq, lastOp, soloAdds>>
svars == <<examDateTime, examDoc, schedReq, serialScheds>>
nvars == <<now, notifications, syllabus, sylReq, crudResp>>
cvars == <<candDocs, subDocs, nextAid>>
rvars == <<resultsTree, run>>
bvars == <<bulk, bulkQuiet>>
gvars == <<concerns, readResp>>
vars == <<qvars, svars, nvars, cvars, rvars, bvars, gvars>>

(* --------------------------- question store --------------------------- *)

QuestionsOf(e) == {q \in questions : q.exam = e}

\* parseInt(correctAnswer, 10) on the strings the requests send
Digits == <<"0", "1", "2", "3", "4", "5", "6", "7", "8", "9">>
IsNaN(s) == \A i \in 1..Len(Digits) : Digits[i] # s
ParseInt(s) == CHOOSE i \in 0..9 : Digits[i + 1] = s

\* request bodies: question text, options (a JSON text), correctAnswer
QuestionInputs == {"", "What is 2+2?"}
\* options as sent: absent, not JSON, a JSON non-array, arrays of 3 and of 4
OptionsInputs == {"", "[a,b", "5", "[3 items]", "[4 items]"}
CorrectAnswerInputs ==
  {"undefined", "abc"} \cup {Digits[i + 1] : i \in 0..MaxAnswerValue}
AllQuestionBodies ==
  [question : QuestionInputs, options : OptionsInputs,
   correctAnswer : CorrectAnswerInputs]
\* the bodies the requests are drawn from: every well-formed one, and the
\* ill-formed ones that differ from a well-formed one in a single field
GoodBody(b) ==
  b.question # "" /\ b.options = "[4 items]" /\ ~IsNaN(b.correctAnswer)
QuestionBodies ==
  {b \in AllQuestionBodies :
     \/ GoodBody(b)
     \/ /\ b.correctAnswer = "0"
        /\ (b.question = "") # (b.options # "[4 items]")
     \/ /\ b.question # "" /\ b.options = "[4 items]"}

MissingFields(b) ==
  b.question = "" \/ b.options = "" \/ b.correctAnswer = "undefined"
JsonParseThrows(b) == b.options = "[a,b"
InvalidFields(b) == b.options # "[4 items]" \/ IsNaN(b.correctAnswer)

\* the status the validation prefix of add/update answers with, 0 when it passes
ValidationStatus(b) ==
  IF MissingFields(b) THEN 400
  ELSE IF JsonParseThrows(b) THEN 500
  ELSE IF InvalidFields(b) THEN 400
  ELSE 0

IdleReq ==
  [pc |-> "idle", exam |-> NoExam, correctAnswer |-> 0, nextOrder |-> 0,
   status |-> 0, qid |-> 0]

\* a count taken over the questions of every exam
NextOrderAllExams(e) == Cardinality(questions) + 1

\* allSnapshot.size + 1
NextOrder(e) == Cardinality(QuestionsOf(e)) + 1

Counting == {s \in AddSlots : addReq[s].pc = "counted"}

(* --------------------------- addQuestion ------------------------------ *)

\* validation, then `await questionsCollection.get()`
AddQuestionCount(s, e, b) ==
  /\ addReq[s].pc # "counted"
  /\ nextQid + Cardinality(Counting) <= MaxQuestions
  /\ IF ValidationStatus(b) # 0
       THEN /\ addReq' = [addReq EXCEPT ![s] =
                           [IdleReq EXCEPT !.pc = "done",
                                           !.status = ValidationStatus(b)]]
            /\ UNCHANGED soloAdds
       ELSE /\ addReq' = [addReq EXCEPT ![s] =
                           [IdleReq EXCEPT !.pc = "counted", !.exam = e,
                              !.correctAnswer = ParseInt(b.correctAnswer),
                              !.nextOrder = NextOrder(e)]]
            /\ soloAdds' = [soloAdds EXCEPT ![e] =
                             @ /\ \A t \in Counting : addReq[t].exam # e]
  /\ UNCHANGED <<questions, nextQid, lastOp>>

\* an insert that takes the count again in the same store transaction
AddQuestionInsertRecount(s) ==
  /\ addReq[s].pc = "counted"
  /\ questions' = questions \cup
        {[exam |-> addReq[s].exam, id |-> nextQid,
          order |-> NextOrder(addReq[s].exam),
          correctAnswer |-> addReq[s].correctAnswer]}
  /\ nextQid' = nextQid + 1
  /\ addReq' = [addReq EXCEPT ![s] =
                 [IdleReq EXCEPT !.pc = "done", !.status = 200,
                                 !.nextOrder = NextOrder(addReq[s].exam),
                                 !.qid = nextQid]]
  /\ UNCHANGED <<lastOp, soloAdds>>

\* `await questionsCollection.add(questionData)`, then the 200 response
AddQuestionInsert(s) ==
  /\ addReq[s].pc = "counted"
  /\ questions' = questions \cup
        {[exam |-> addReq[s].exam, id |-> nextQid,
          order |-> addReq[s].nextOrder,
          correctAnswer |-> addReq[s].correctAnswer]}
  /\ nextQid' = nextQid + 1
  /\ addReq' = [addReq EXCEPT ![s] =
                 [IdleReq EXCEPT !.pc = "done", !.status = 200,
                                 !.nextOrder = addReq[s].nextOrder,
                                 !.qid = nextQid]]
  /\ UNCHANGED <<lastOp, soloAdds>>

(* -------------------------- updateQuestion ---------------------------- *)

\* questionDoc.update(updateData): the named fields only; throws when absent
UpdateDoc(e, id, ca) ==
  {IF q.exam = e /\ q.id = id THEN [q EXCEPT !.correctAnswer = ca] ELSE q :
     q \in questions}

UpdateQuestion(e, id, b) ==
  /\ IF ValidationStatus(b) # 0
       THEN /\ lastOp' = [op |-> "update",
                          status |-> ValidationStatus(b)]
            /\ UNCHANGED questions
       ELSE IF \E q \in QuestionsOf(e) : q.id = id
         THEN /\ questions' = UpdateDoc(e, id, ParseInt(b.correctAnswer))
              /\ lastOp' = [op |-> "update",
                            status |-> 200]
         ELSE /\ lastOp' = [op |-> "update",
                            status |-> 500]
              /\ UNCHANGED questions
  /\ UNCHANGED <<nextQid, addReq, soloAdds>>

(* -------------------------- deleteQuestion ---------------------------- *)

\* a delete that closes the gap by renumbering the questions after it
DeleteDocRenumber(e, id) ==
  {IF q.exam = e /\ \E d \in questions :
                      d.exam = e /\ d.id = id /\ d.order < q.order
     THEN [q EXCEPT !.order = @ - 1] ELSE q :
   q \in {r \in questions : ~(r.exam = e /\ r.id = id)}}

\* questionDoc.delete(): removes Exams/{e}/Questions/{id}, a no-op when absent
DeleteDoc(e, id) == {q \in questions : ~(q.exam = e /\ q.id = id)}

DeleteQuestion(e, id) ==
  /\ questions' = DeleteDoc(e, id)
  /\ lastOp' = [op |-> "delete", status |-> 200]
  /\ soloAdds' = [soloAdds EXCEPT ![e] = FALSE]
  /\ UNCHANGED <<nextQid, addReq>>

(* ------------------------ question management ------------------------- *)


QuestionIds == 1..MaxQuestions

QInit ==
  /\ questions = {}
  /\ nextQid = 1
  /\ addReq = [s \in AddSlots |-> IdleReq]
  /\ lastOp = [op |-> "none", status |-> 0]
  /\ soloAdds = [e \in Exams |-> TRUE]


(* ============================ scheduling ============================== *)

\* a time string is the sequence of its characters
IsDigit(c) == \E i \in 1..10 : Digits[i] = c
DigitValue(c) == CHOOSE v \in 0..9 : Digits[v + 1] = c
InRange(c, lo, hi) == IsDigit(c) /\ lo <= DigitValue(c) /\ DigitValue(c) <= hi
\* \s
IsWhitespace(c) == c \in {" ", "\t", "\n"}
\* the i flag
UpperCase(c) ==
  CASE c = "a" -> "A" [] c = "p" -> "P" [] c = "m" -> "M" [] OTHER -> c

CharAt(t, i) == IF i >= 1 /\ i <= Len(t) THEN t[i] ELSE "<end>"

\* (0?[1-9]|1[0-2]) from position 1: the positions right after each way to match
HourEnds(t) ==
  {p \in 2..3 :
     \/ p = 2 /\ InRange(CharAt(t, 1), 1, 9)
     \/ p = 3 /\ CharAt(t, 1) = "0" /\ InRange(CharAt(t, 2), 1, 9)
     \/ p = 3 /\ CharAt(t, 1) = "1" /\ InRange(CharAt(t, 2), 0, 2)}

\* :[0-5][0-9] from position p: the position right after it
MinuteEnds(t, p) ==
  {q \in {p + 3} :
     /\ CharAt(t, p) = ":"
     /\ InRange(CharAt(t, p + 1), 0, 5)
     /\ InRange(CharAt(t, p + 2), 0, 9)}

\* \s? from position q
SpaceEnds(t, q) == {q} \cup {r \in {q + 1} : IsWhitespace(CharAt(t, q))}

\* (AM|PM)$ from position r, ignoring case
SuffixAtEnd(t, r) ==
  /\ UpperCase(CharAt(t, r)) \in {"A", "P"}
  /\ UpperCase(CharAt(t, r + 1)) = "M"
  /\ Len(t) = r + 1

\* a pattern whose minutes are any two digits
TimeRegexAnyMinute(t) ==
  \E p \in HourEnds(t) :
    /\ CharAt(t, p) = ":" /\ IsDigit(CharAt(t, p + 1))
    /\ IsDigit(CharAt(t, p + 2))
    /\ \E r \in SpaceEnds(t, p + 3) : SuffixAtEnd(t, r)

\* /^(0?[1-9]|1[0-2]):[0-5][0-9]\s?(AM|PM)$/i .test(t)
TimeRegexTest(t) ==
  \E p \in HourEnds(t) : \E q \in MinuteEnds(t, p) :
    \E r \in SpaceEnds(t, q) : SuffixAtEnd(t, r)

NoTime == <<>>
NoSchedule ==
  [date |-> "", startTime |-> NoTime, endTime |-> NoTime,
   marks |-> "undefined", price |-> "undefined"]

\* !date, !startTime, !endTime, marks === undefined, price === undefined
ScheduleFieldMissing(b) ==
  \/ b.date = "" \/ b.startTime = NoTime \/ b.endTime = NoTime
  \/ b.marks = "undefined" \/ b.price = "undefined"

ScheduleStatus(b) ==
  IF ScheduleFieldMissing(b) THEN 400
  ELSE IF ~TimeRegexTest(b.startTime) \/ ~TimeRegexTest(b.endTime) THEN 400
  ELSE 0

IdleSched == [pc |-> "idle", exam |-> NoExam, body |-> NoSchedule, status |-> 0]

\* validation, then `await examDateTimeRef.set({...})` on the key-tree store
SetExamScheduleValidate(s, e, b) ==
  /\ schedReq[s].pc # "rtdbWritten"
  /\ IF ScheduleStatus(b) # 0
       THEN /\ schedReq' = [schedReq EXCEPT ![s] =
                 [pc |-> "done", exam |-> e, body |-> b,
                  status |-> ScheduleStatus(b)]]
            /\ UNCHANGED <<examDateTime, serialScheds>>
       ELSE /\ examDateTime' = [examDateTime EXCEPT ![e] = b]
            /\ schedReq' = [schedReq EXCEPT ![s] =
                 [pc |-> "rtdbWritten", exam |-> e, body |-> b, status |-> 0]]
            /\ serialScheds' = [serialScheds EXCEPT ![e] =
                 @ /\ \A t \in SchedSlots :
                        ~(schedReq[t].pc = "rtdbWritten" /\ schedReq[t].exam = e)]
  /\ UNCHANGED examDoc

\* `await examRef.set({dateTime: {...}}, {merge: true})`, then the 200 response
SetExamScheduleMerge(s) ==
  /\ schedReq[s].pc = "rtdbWritten"
  /\ examDoc' = [examDoc EXCEPT ![schedReq[s].exam] = schedReq[s].body]
  /\ schedReq' = [schedReq EXCEPT ![s] = [@ EXCEPT !.pc = "done", !.status = 200]]
  /\ UNCHANGED <<examDateTime, serialScheds>>

SInit ==
  /\ examDateTime = [e \in Exams |-> NoSchedule]
  /\ examDoc = [e \in Exams |-> NoSchedule]
  /\ schedReq = [s \in SchedSlots |-> IdleSched]
  /\ serialScheds = [e \in Exams |-> TRUE]

\* the time strings the requests send: "1:45 PM" with one part replaced, and
\* some strings that are off in other ways
HourParts ==
  {<<"1">>, <<"0", "9">>, <<"1", "2">>,
   <<"0">>, <<"0", "0">>, <<"1", "3">>, <<"2", "0">>, <<>>, <<"0", "1", "1">>}
MinuteParts ==
  {<<"4", "5">>, <<"5", "9">>, <<"6", "0">>, <<"5">>, <<"4", "5", "0">>,
   <<"4", "x">>}
SpaceParts == {<<" ">>, <<>>, <<"\t">>, <<" ", " ">>, <<"-">>}
SuffixParts ==
  {<<"P", "M">>, <<"a", "M">>, <<"X", "M">>, <<"P">>, <<>>,
   <<"P", "M", "x">>, <<"P", "M", " ">>, <<"P", "M", "\n">>}
TimeOf(h, m, sp, su) == h \o <<":">> \o m \o sp \o su
RefTime == <<"1", ":", "4", "5", " ", "P", "M">>
TimeInputs ==
  {TimeOf(h, <<"4", "5">>, <<" ">>, <<"P", "M">>) : h \in HourParts}
  \cup {TimeOf(<<"1">>, m, <<" ">>, <<"P", "M">>) : m \in MinuteParts}
  \cup {TimeOf(<<"1">>, <<"4", "5">>, sp, <<"P", "M">>) : sp \in SpaceParts}
  \cup {TimeOf(<<"1">>, <<"4", "5">>, <<" ">>, su) : su \in SuffixParts}
  \cup {<<"1", "3", ":", "0", "0", " ", "P", "M">>,
        <<"1", ":", "6", "0", " ", "A", "M">>,
        <<"1", ":", "0", "0">>,
        <<"1", "4", "5", " ", "P", "M">>,
        <<" ", "1", ":", "4", "5", " ", "P", "M">>}

Today == "2026-11-05"

FullBody(d, st, et) ==
  [date |-> d, startTime |-> st, endTime |-> et, marks |-> "100",
   price |-> "50"]

\* bodies for the validation: every time input as startTime, as endTime and as
\* both next to a well-formed other time, and a well-formed body with one
\* field left out
OtherTime == <<"1", "2", ":", "0", "0", "a", "m">>
ValidationBodies ==
  {FullBody(Today, t, OtherTime) : t \in TimeInputs}
  \cup {FullBody(Today, OtherTime, t) : t \in TimeInputs}
  \cup {FullBody(Today, t, t) : t \in TimeInputs}
  \cup {[FullBody(Today, RefTime, OtherTime) EXCEPT !.date = ""],
        [FullBody(Today, RefTime, OtherTime) EXCEPT !.startTime = NoTime],
        [FullBody(Today, RefTime, OtherTime) EXCEPT !.endTime = NoTime],
        [FullBody(Today, RefTime, OtherTime) EXCEPT !.marks = "undefined"],
        [FullBody(Today, RefTime, OtherTime) EXCEPT !.price = "undefined"]}

(* ==================== notifications and syllabus ====================== *)

Times == 1..MaxClock
MessageInputs == {"", "exam moved"}
LinkInputs == {"", "https://a/syllabus.pdf", "https://b/syllabus.pdf"}

\* the children of a key-tree path are the records carrying its key
Child(tree, id) == {r \in tree : r.id = id}
Exists(tree, id) == Child(tree, id) # {}
\* ref.set(value) replaces what is at the path, ref.remove() clears it
TreeSet(tree, rec) == {r \in tree : r.id # rec.id} \cup {rec}
TreeRemove(tree, id) == {r \in tree : r.id # id}

Tick ==
  /\ now < MaxClock
  /\ now' = now + 1
  /\ UNCHANGED <<notifications, syllabus, sylReq, crudResp>>

\* POST /api/notifications: the id is Date.now().toString()
SaveNotification(m) ==
  /\ IF m = ""
       THEN /\ crudResp' = [op |-> "saveNotification", status |-> 400]
            /\ UNCHANGED notifications
       ELSE /\ notifications' = TreeSet(notifications,
                 [id |-> now, message |-> m, createdAt |-> TRUE,
                  updatedAt |-> now])
            /\ crudResp' = [op |-> "saveNotification", status |-> 200]
  /\ UNCHANGED <<now, syllabus, sylReq>>

\* notificationRef.update({message, updatedAt}): writes the two children,
\* whether or not anything is at the path
NotificationUpdate(id, m) ==
  IF Exists(notifications, id)
    THEN {[r EXCEPT !.message = m, !.updatedAt = now] :
            r \in Child(notifications, id)}
           \cup TreeRemove(notifications, id)
    ELSE notifications \cup
           {[id |-> id, message |-> m, createdAt |-> FALSE, updatedAt |-> now]}

\* PUT /api/notifications/:id
UpdateNotification(id, m) ==
  /\ IF m = ""
       THEN /\ crudResp' = [op |-> "updateNotification", status |-> 400]
            /\ UNCHANGED notifications
       ELSE /\ notifications' = NotificationUpdate(id, m)
            /\ crudResp' = [op |-> "updateNotification", status |-> 200]
  /\ UNCHANGED <<now, syllabus, sylReq>>

\* DELETE /api/notifications/:id
DeleteNotification(id) ==
  /\ notifications' = TreeRemove(notifications, id)
  /\ crudResp' = [op |-> "deleteNotification", status |-> 200]
  /\ UNCHANGED <<now, syllabus, sylReq>>

\* POST /api/syllabus: the id is `syllabus_${Date.now()}`
SaveSyllabus(e, l) ==
  /\ IF e = "" \/ l = ""
       THEN /\ crudResp' = [op |-> "saveSyllabus", status |-> 400]
            /\ UNCHANGED syllabus
       ELSE /\ syllabus' = TreeSet(syllabus,
                 [id |-> now, examTitle |-> e, syllabusLink |-> l,
                  uploadedAt |-> now, updatedAt |-> now])
            /\ crudResp' = [op |-> "saveSyllabus", status |-> 200]
  /\ UNCHANGED <<now, notifications, sylReq>>

NoSyllabus ==
  [id |-> 0, examTitle |-> "", syllabusLink |-> "", uploadedAt |-> 0,
   updatedAt |-> 0]
IdleSyl == [pc |-> "idle", op |-> "none", snapshot |-> NoSyllabus]
SylBusy == sylReq.pc = "read"

\* PUT /api/syllabus/:id up to `await syllabusRef.once('value')`: validation,
\* the read, and the 404 when the snapshot does not exist
UpdateSyllabusRead(id, e, l) ==
  /\ ~SylBusy
  /\ IF e = "" \/ l = ""
       THEN /\ crudResp' = [op |-> "updateSyllabus", status |-> 400]
            /\ sylReq' = IdleSyl
       ELSE IF ~Exists(syllabus, id)
         THEN /\ crudResp' = [op |-> "updateSyllabus", status |-> 404]
              /\ sylReq' = IdleSyl
         ELSE /\ sylReq' =
                   [pc |-> "read", op |-> "update",
                    snapshot |->
                      [(CHOOSE r \in Child(syllabus, id) : TRUE)
                         EXCEPT !.examTitle = e, !.syllabusLink = l]]
              /\ UNCHANGED crudResp
  /\ UNCHANGED <<now, notifications, syllabus>>

\* `await syllabusRef.update(updatedData)`: every field of the merged record
UpdateSyllabusWrite ==
  /\ sylReq.pc = "read" /\ sylReq.op = "update"
  /\ syllabus' = TreeSet(syllabus, [sylReq.snapshot EXCEPT !.updatedAt = now])
  /\ crudResp' = [op |-> "updateSyllabus", status |-> 200]
  /\ sylReq' = IdleSyl
  /\ UNCHANGED <<now, notifications>>

\* DELETE /api/syllabus/:id up to `await syllabusRef.once('value')`
DeleteSyllabusRead(id) ==
  /\ ~SylBusy
  /\ IF ~Exists(syllabus, id)
       THEN /\ crudResp' = [op |-> "deleteSyllabus", status |-> 404]
            /\ sylReq' = IdleSyl
       ELSE /\ sylReq' = [pc |-> "read", op |-> "delete",
                          snapshot |-> [NoSyllabus EXCEPT !.id = id]]
            /\ UNCHANGED crudResp
  /\ UNCHANGED <<now, notifications, syllabus>>

\* `await syllabusRef.remove()`
DeleteSyllabusRemove ==
  /\ sylReq.pc = "read" /\ sylReq.op = "delete"
  /\ syllabus' = TreeRemove(syllabus, sylReq.snapshot.id)
  /\ crudResp' = [op |-> "deleteSyllabus", status |-> 200]
  /\ sylReq' = IdleSyl
  /\ UNCHANGED <<now, notifications>>

NInit ==
  /\ now = 1
  /\ notifications = {}
  /\ syllabus = {}
  /\ sylReq = IdleSyl
  /\ crudResp = [op |-> "none", status |-> 0]

(* ============================ candidates ============================== *)

\* The candidate documents and their answers are written by the candidates'
\* application; this backend reads them (results aggregation, listing) and
\* deletes them (bulk delete).

\* the collection the listing and the results aggregation read
ReadCollection == "candidates"

CollOf(coll) == {c \in candDocs : c.coll = coll}
SubDocsOf(coll, cand) == {d \in subDocs : d.coll = coll /\ d.cand = cand}

\* a candidate document is written: registration for an exam
RegisterCandidate(coll, id, e) ==
  /\ candDocs' = {c \in candDocs : ~(c.coll = coll /\ c.id = id)}
                   \cup {[coll |-> coll, id |-> id, exam |-> e]}
  /\ bulkQuiet' = FALSE
  /\ UNCHANGED <<subDocs, nextAid, bulk>>

\* a document is added to a sub-collection of a candidate: an answer record
SubmitAnswer(coll, cand, sub, order, answer, skipped) ==
  /\ nextAid <= MaxAnswers
  /\ subDocs' = subDocs \cup
       {[coll |-> coll, cand |-> cand, sub |-> sub, id |-> nextAid,
         order |-> order, answer |-> answer, skipped |-> skipped]}
  /\ nextAid' = nextAid + 1
  /\ bulkQuiet' = FALSE
  /\ UNCHANGED <<candDocs, bulk>>

(* ======================== results aggregation ========================= *)

\* a snapshot lists documents by id; orderBy('order') by order, then by id
RECURSIVE DocsById(_)
DocsById(S) ==
  IF S = {} THEN <<>>
  ELSE LET m == CHOOSE d \in S : \A o \in S : d.id <= o.id
       IN  <<m>> \o DocsById(S \ {m})

RECURSIVE DocsByOrder(_)
DocsByOrder(S) ==
  IF S = {} THEN <<>>
  ELSE LET m == CHOOSE d \in S : \A o \in S :
                  d.order < o.order \/ (d.order = o.order /\ d.id <= o.id)
       IN  <<m>> \o DocsByOrder(S \ {m})

\* the first exam document, in id order, with dateTime.date === today
TodayExam ==
  LET hits == {i \in 1..Len(ExamTitles) : examDoc[ExamTitles[i]].date = Today}
  IN  IF hits = {} THEN NoExam
      ELSE ExamTitles[CHOOSE i \in hits : \A j \in hits : i <= j]

\* the last answer carrying the order
FindLastAnswer(answers, order) ==
  LET hits == {i \in 1..Len(answers) : answers[i].order = order}
  IN  IF hits = {} THEN 0 ELSE CHOOSE i \in hits : \A j \in hits : j <= i

\* answers.find(a => a.order === question.order): the index, 0 for undefined
FindAnswer(answers, order) ==
  LET hits == {i \in 1..Len(answers) : answers[i].order = order}
  IN  IF hits = {} THEN 0 ELSE CHOOSE i \in hits : \A j \in hits : i <= j

\* only an answer flagged skipped counts as skipped
IsSkippedFlagOnly(answers, q) ==
  LET i == FindAnswer(answers, q.order)
  IN  i # 0 /\ answers[i].skipped

\* !candidateAnswer || candidateAnswer.skipped
IsSkipped(answers, q) ==
  LET i == FindAnswer(answers, q.order)
  IN  i = 0 \/ answers[i].skipped

\* a second `if` in place of the `else if`: the skipped flag is not looked at
IsCorrectIgnoringSkip(answers, q) ==
  LET i == FindAnswer(answers, q.order)
  IN  i # 0 /\ answers[i].answer = q.correctAnswer

\* else if (candidateAnswer.answer === question.correctAnswer)
IsCorrect(answers, q) ==
  LET i == FindAnswer(answers, q.order)
  IN  /\ ~IsSkipped(answers, q)
      /\ i # 0
      /\ answers[i].answer = q.correctAnswer

\* the skipped questions left out of the subtraction
WrongAnswersNoSkipped(total, correct, skipped) == total - correct

\* examQuestions.length - (correctAnswers + skippedQuestions)
WrongAnswers(total, correct, skipped) == total - (correct + skipped)

ResultData(cand, qs, answers) ==
  LET correct == Cardinality({i \in 1..Len(qs) : IsCorrect(answers, qs[i])})
      skipped == Cardinality({i \in 1..Len(qs) : IsSkipped(answers, qs[i])})
  IN  [registrationNumber |-> cand,
       totalQuestions |-> Len(qs),
       correctAnswers |-> correct,
       skippedQuestions |-> skipped,
       wrongAnswers |-> WrongAnswers(Len(qs), correct, skipped)]

\* a write that adds a record under the path and keeps the ones already there
ResultPush(tree, e, rec, t) ==
  tree \cup {[exam |-> e, cand |-> rec.registrationNumber, data |-> rec,
              timestamp |-> t]}

\* realtimeDatabase.ref(`Results/${exam}/${cand}`).set({...resultData, timestamp})
ResultSet(tree, e, rec, t) ==
  {r \in tree : ~(r.exam = e /\ r.cand = rec.registrationNumber)}
    \cup {[exam |-> e, cand |-> rec.registrationNumber, data |-> rec,
           timestamp |-> t]}

\* seq numbers the requests
IdleRun ==
  [pc |-> "idle", seq |-> 0, exam |-> NoExam, questions |-> <<>>,
   cands |-> <<>>, idx |-> 0, answers |-> <<>>, results |-> <<>>,
   status |-> 0]

RunActive == run.pc \notin {"idle", "done"}

\* `await firestore.collection('Exams').get()`
ResultsReadExams ==
  /\ ~RunActive
  /\ run.seq < MaxRuns
  /\ run' = [IdleRun EXCEPT !.pc = "exams", !.seq = run.seq + 1,
                             !.exam = TodayExam]
  /\ UNCHANGED resultsTree

\* the search for today's exam: 404 when there is none, else
\* `await doc.ref.collection('Questions').orderBy('order').get()`
ResultsReadQuestions ==
  /\ run.pc = "exams"
  /\ IF run.exam = NoExam
       THEN run' = [run EXCEPT !.pc = "done", !.status = 404]
       ELSE run' = [run EXCEPT !.pc = "questions",
                      !.questions = DocsByOrder(QuestionsOf(run.exam))]
  /\ UNCHANGED resultsTree

\* `await firestore.collection('candidates').where('exam', '==', id).get()`
ResultsReadCandidates ==
  /\ run.pc = "questions"
  /\ run' = [run EXCEPT !.pc = "loop", !.idx = 0,
               !.cands = DocsById({c \in CollOf(ReadCollection) :
                                     c.exam = run.exam})]
  /\ UNCHANGED resultsTree

\* the head of the loop over the candidates:
\* `await candidateDoc.ref.collection('answers').get()`, or past the last
\* candidate the 200 response
ResultsReadAnswers ==
  /\ run.pc = "loop"
  /\ IF run.idx = Len(run.cands)
       THEN run' = [run EXCEPT !.pc = "done", !.status = 200]
       ELSE run' = [run EXCEPT !.pc = "answers", !.idx = @ + 1,
                      !.answers = DocsById(
                         {d \in SubDocsOf(ReadCollection, run.cands[run.idx + 1].id) :
                            d.sub = "answers"})]
  /\ UNCHANGED resultsTree

\* the tally, results.push(resultData) and `await resultRef.set({...})`
ResultsStore ==
  /\ run.pc = "answers"
  /\ LET rec == ResultData(run.cands[run.idx].id, run.questions, run.answers)
     IN  /\ resultsTree' = ResultSet(resultsTree, run.exam, rec, now)
         /\ run' = [run EXCEPT !.pc = "loop", !.results = Append(@, rec)]

RInitIdle ==
  /\ resultsTree = {}
  /\ run = IdleRun

(* ===================== bulk candidate delete ========================== *)

\* the collection the bulk delete walks
BulkCollection == "Candidates"
Collections == {ReadCollection, BulkCollection}
SubCollections == {"answers", "SubCollection"}

IdleBulk == [pc |-> "idle", cands |-> <<>>, idx |-> 0, status |-> 0]

\* `await candidatesCollection.get()`
BulkDeleteList ==
  /\ bulk.pc \in {"idle", "done"}
  /\ bulk' = [IdleBulk EXCEPT !.pc = "loop",
                              !.cands = DocsById(CollOf(BulkCollection))]
  /\ bulkQuiet' = TRUE
  /\ UNCHANGED <<candDocs, subDocs, nextAid>>

\* one pass of the loop: the store calls that delete the documents of every
\* sub-collection of the candidate document (SubCollection/answers first, then
\* what listCollections() names), then the candidate document itself
BulkDeleteCandidate ==
  /\ bulk.pc = "loop" /\ bulk.idx < Len(bulk.cands)
  /\ LET c == bulk.cands[bulk.idx + 1]
     IN  /\ subDocs' = subDocs \ SubDocsOf(BulkCollection, c.id)
         /\ candDocs' = {d \in candDocs :
                           ~(d.coll = BulkCollection /\ d.id = c.id)}
  /\ bulk' = [bulk EXCEPT !.idx = @ + 1]
  /\ UNCHANGED <<nextAid, bulkQuiet>>

\* past the last candidate: the 200 response
BulkDeleteRespond ==
  /\ bulk.pc = "loop" /\ bulk.idx = Len(bulk.cands)
  /\ bulk' = [bulk EXCEPT !.pc = "done", !.status = 200]
  /\ UNCHANGED <<candDocs, subDocs, nextAid, bulkQuiet>>

CInit ==
  /\ candDocs = {}
  /\ subDocs = {}
  /\ nextAid = 1

BInit ==
  /\ bulk = IdleBulk
  /\ bulkQuiet = FALSE

(* ============================== reads ================================= *)

ConcernIds == {1, 2}
NoPayload == "none"

\* a concern document is written: a report filed by a candidate
SubmitConcern(id) ==
  /\ concerns' = concerns \cup {id}
  /\ UNCHANGED readResp

\* DELETE /api/concerns/:id: concernRef.delete(), a no-op when absent
DeleteConcern(id) ==
  /\ concerns' = concerns \ {id}
  /\ readResp' = [op |-> "deleteConcern", status |-> 200, payload |-> NoPayload]

\* GET /api/exams/:examTitle/date-time: 404 when snapshot.val() is null
GetExamSchedule(e) ==
  /\ readResp' =
       IF examDateTime[e] = NoSchedule
         THEN [op |-> "getExamSchedule", status |-> 404, payload |-> NoPayload]
         ELSE [op |-> "getExamSchedule", status |-> 200,
               payload |-> examDateTime[e]]
  /\ UNCHANGED concerns

\* GET /api/syllabus: 200 with data {} when the snapshot does not exist
GetSyllabus ==
  /\ readResp' = [op |-> "getSyllabus", status |-> 200, payload |-> syllabus]
  /\ UNCHANGED concerns

\* GET /api/concerns: 404 when snapshot.empty
GetConcerns ==
  /\ readResp' =
       IF concerns = {}
         THEN [op |-> "getConcerns", status |-> 404, payload |-> NoPayload]
         ELSE [op |-> "getConcerns", status |-> 200, payload |-> concerns]
  /\ UNCHANGED concerns

\* GET /api/candidates: 404 when snapshot.empty
GetCandidates ==
  /\ readResp' =
       IF CollOf(ReadCollection) = {}
         THEN [op |-> "getCandidates", status |-> 404, payload |-> NoPayload]
         ELSE [op |-> "getCandidates", status |-> 200,
               payload |-> CollOf(ReadCollection)]
  /\ UNCHANGED concerns

\* GET /api/all-exam-results: 200 with data {} when snapshot.val() is null
GetAllExamResults ==
  /\ readResp' = [op |-> "getAllExamResults", status |-> 200,
                  payload |-> resultsTree]
  /\ UNCHANGED concerns

GInit ==
  /\ concerns = {}
  /\ readResp = [op |-> "none", status |-> 0, payload |-> NoPayload]

(* ========================== specifications ============================ *)

Init == QInit /\ SInit /\ NInit /\ CInit /\ RInitIdle /\ BInit /\ GInit

\* question management: add, update and delete requests in any interleaving
QNext ==
  \/ /\ \E s \in AddSlots, e \in Exams, b \in QuestionBodies :
          AddQuestionCount(s, e, b)
     /\ UNCHANGED <<svars, nvars, cvars, rvars, bvars, gvars>>
  \/ /\ \E s \in AddSlots : AddQuestionInsert(s)
     /\ UNCHANGED <<svars, nvars, cvars, rvars, bvars, gvars>>
  \/ /\ \E e \in Exams, id \in QuestionIds, b \in QuestionBodies :
          UpdateQuestion(e, id, b)
     /\ UNCHANGED <<svars, nvars, cvars, rvars, bvars, gvars>>
  \/ /\ \E e \in Exams, id \in QuestionIds : DeleteQuestion(e, id)
     /\ UNCHANGED <<svars, nvars, cvars, rvars, bvars, gvars>>

QuestionSpec == Init /\ [][QNext]_vars

\* the same requests, each completing before the next one starts
SeqQNext ==
  \/ /\ Counting = {}
     /\ \E s \in AddSlots, e \in Exams, b \in QuestionBodies :
          AddQuestionCount(s, e, b)
     /\ UNCHANGED <<svars, nvars, cvars, rvars, bvars, gvars>>
  \/ /\ \E s \in AddSlots : AddQuestionInsert(s)
     /\ UNCHANGED <<svars, nvars, cvars, rvars, bvars, gvars>>
  \/ /\ Counting = {}
     /\ \E e \in Exams, id \in QuestionIds, b \in QuestionBodies :
          UpdateQuestion(e, id, b)
     /\ UNCHANGED <<svars, nvars, cvars, rvars, bvars, gvars>>
  \/ /\ Counting = {}
     /\ \E e \in Exams, id \in QuestionIds : DeleteQuestion(e, id)
     /\ UNCHANGED <<svars, nvars, cvars, rvars, bvars, gvars>>

SeqQuestionSpec == Init /\ [][SeqQNext]_vars

\* one request at a time on one exam, over the validation bodies (a request
\* reads and writes only the entries of its own exam title)
ValidationNext ==
  \/ /\ \E b \in ValidationBodies :
          SetExamScheduleValidate("r1", ExamTitles[1], b)
     /\ UNCHANGED <<qvars, nvars, cvars, rvars, bvars, gvars>>
  \/ /\ SetExamScheduleMerge("r1")
     /\ UNCHANGED <<qvars, nvars, cvars, rvars, bvars, gvars>>

ValidationSpec == Init /\ [][ValidationNext]_vars

\* the bodies of the scheduling requests: two well-formed ones that differ in
\* every field, and one without marks
ScheduleBodies ==
  {FullBody(Today, RefTime, OtherTime),
   [date |-> "2026-11-06", startTime |-> OtherTime, endTime |-> RefTime,
    marks |-> "80", price |-> "0"],
   [FullBody(Today, RefTime, OtherTime) EXCEPT !.marks = "undefined"]}

\* scheduling requests on every exam, in any interleaving of their store calls
ScheduleNext ==
  \/ /\ \E s \in SchedSlots, e \in Exams, b \in ScheduleBodies :
          SetExamScheduleValidate(s, e, b)
     /\ UNCHANGED <<qvars, nvars, cvars, rvars, bvars, gvars>>
  \/ /\ \E s \in SchedSlots : SetExamScheduleMerge(s)
     /\ UNCHANGED <<qvars, nvars, cvars, rvars, bvars, gvars>>

ScheduleSpec == Init /\ [][ScheduleNext]_vars

\* notification and syllabus requests and the clock
CrudNext ==
  \/ Tick /\ UNCHANGED <<qvars, svars, cvars, rvars, bvars, gvars>>
  \/ /\ \E m \in MessageInputs : SaveNotification(m)
     /\ UNCHANGED <<qvars, svars, cvars, rvars, bvars, gvars>>
  \/ /\ \E id \in Times, m \in MessageInputs : UpdateNotification(id, m)
     /\ UNCHANGED <<qvars, svars, cvars, rvars, bvars, gvars>>
  \/ /\ \E id \in Times : DeleteNotification(id)
     /\ UNCHANGED <<qvars, svars, cvars, rvars, bvars, gvars>>
  \/ /\ \E e \in Exams \cup {""}, l \in LinkInputs : SaveSyllabus(e, l)
     /\ UNCHANGED <<qvars, svars, cvars, rvars, bvars, gvars>>
  \/ /\ \E id \in Times, e \in Exams \cup {""}, l \in LinkInputs :
          UpdateSyllabusRead(id, e, l)
     /\ UNCHANGED <<qvars, svars, cvars, rvars, bvars, gvars>>
  \/ UpdateSyllabusWrite /\ UNCHANGED <<qvars, svars, cvars, rvars, bvars, gvars>>
  \/ /\ \E id \in Times : DeleteSyllabusRead(id)
     /\ UNCHANGED <<qvars, svars, cvars, rvars, bvars, gvars>>
  \/ DeleteSyllabusRemove /\ UNCHANGED <<qvars, svars, cvars, rvars, bvars, gvars>>

CrudSpec == Init /\ [][CrudNext]_vars

\* the bulk delete, with candidates registering and answering in both
\* collections
BulkNext ==
  \/ /\ \E coll \in Collections, id \in Candidates :
          RegisterCandidate(coll, id, ExamTitles[1])
     /\ UNCHANGED <<qvars, svars, nvars, rvars, gvars>>
  \/ /\ \E coll \in Collections, c \in candDocs, sub \in SubCollections :
          c.coll = coll /\ SubmitAnswer(coll, c.id, sub, 1, 0, FALSE)
     /\ UNCHANGED <<qvars, svars, nvars, rvars, gvars>>
  \/ BulkDeleteList /\ UNCHANGED <<qvars, svars, nvars, rvars, gvars>>
  \/ BulkDeleteCandidate /\ UNCHANGED <<qvars, svars, nvars, rvars, gvars>>
  \/ BulkDeleteRespond /\ UNCHANGED <<qvars, svars, nvars, rvars, gvars>>

BulkSpec == Init /\ [][BulkNext]_vars

\* the read requests, next to the requests that fill and empty what they read
ReadNext ==
  \/ /\ \E id \in ConcernIds : SubmitConcern(id)
     /\ UNCHANGED <<qvars, svars, nvars, cvars, rvars, bvars>>
  \/ /\ \E id \in ConcernIds : DeleteConcern(id)
     /\ UNCHANGED <<qvars, svars, nvars, cvars, rvars, bvars>>
  \/ /\ \E e \in Exams : GetExamSchedule(e)
     /\ UNCHANGED <<qvars, svars, nvars, cvars, rvars, bvars>>
  \/ GetSyllabus /\ UNCHANGED <<qvars, svars, nvars, cvars, rvars, bvars>>
  \/ GetConcerns /\ UNCHANGED <<qvars, svars, nvars, cvars, rvars, bvars>>
  \/ GetCandidates /\ UNCHANGED <<qvars, svars, nvars, cvars, rvars, bvars>>
  \/ GetAllExamResults /\ UNCHANGED <<qvars, svars, nvars, cvars, rvars, bvars>>
  \/ /\ \E b \in ScheduleBodies :
          SetExamScheduleValidate("r1", ExamTitles[1], b)
     /\ UNCHANGED <<qvars, nvars, cvars, rvars, bvars, gvars>>
  \/ /\ SetExamScheduleMerge("r1")
     /\ UNCHANGED <<qvars, nvars, cvars, rvars, bvars, gvars>>
  \/ /\ SaveSyllabus(ExamTitles[1], "https://a/syllabus.pdf")
     /\ UNCHANGED <<qvars, svars, cvars, rvars, bvars, gvars>>
  \/ /\ \E id \in Times : DeleteSyllabusRead(id)
     /\ UNCHANGED <<qvars, svars, cvars, rvars, bvars, gvars>>
  \/ DeleteSyllabusRemove /\ UNCHANGED <<qvars, svars, cvars, rvars, bvars, gvars>>
  \/ /\ RegisterCandidate(ReadCollection, 1, ExamTitles[1])
     /\ UNCHANGED <<qvars, svars, nvars, rvars, gvars>>
  \/ ResultsReadExams /\ UNCHANGED <<qvars, svars, nvars, cvars, bvars, gvars>>
  \/ ResultsReadQuestions /\ UNCHANGED <<qvars, svars, nvars, cvars, bvars, gvars>>
  \/ ResultsReadCandidates /\ UNCHANGED <<qvars, svars, nvars, cvars, bvars, gvars>>
  \/ ResultsReadAnswers /\ UNCHANGED <<qvars, svars, nvars, cvars, bvars, gvars>>
  \/ ResultsStore /\ UNCHANGED <<qvars, svars, nvars, cvars, bvars, gvars>>

ReadSpec == Init /\ [][ReadNext]_vars

\* the results aggregation starts from a store that earlier requests filled
TodayBody == FullBody(Today, RefTime, RefTime)

TallyOrders == 1..MaxTallyQuestions
AnswerValues == 0..MaxAnswerValue
NoQuestion == [order |-> 0, correctAnswer |-> 0]
QuestionChoices ==
  {NoQuestion} \cup [order : TallyOrders, correctAnswer : AnswerValues]
QuestionSetOf(e, f) ==
  {[exam |-> e, id |-> i, order |-> f[i].order,
    correctAnswer |-> f[i].correctAnswer] :
     i \in {j \in DOMAIN f : f[j] # NoQuestion}}

\* one exam, scheduled today, with any set of questions, and one candidate
OneCandidateInit ==
  /\ \E f \in [TallyOrders -> QuestionChoices] :
       questions = QuestionSetOf(ExamTitles[1], f)
  /\ examDoc = [e \in Exams |->
                  IF e = ExamTitles[1] THEN TodayBody ELSE NoSchedule]
  /\ candDocs = {[coll |-> ReadCollection, id |-> 1, exam |-> ExamTitles[1]]}

\* two exams with two questions and one, each scheduled today or not at all,
\* and two candidates
TwoCandidatesInit ==
  /\ questions =
       {[exam |-> ExamTitles[1], id |-> 1, order |-> 1, correctAnswer |-> 0],
        [exam |-> ExamTitles[1], id |-> 2, order |-> 2, correctAnswer |-> 1],
        [exam |-> ExamTitles[2], id |-> 3, order |-> 1, correctAnswer |-> 1]}
  /\ examDoc \in [Exams -> {NoSchedule, TodayBody}]
  /\ \E e \in Exams :
       candDocs = {[coll |-> ReadCollection, id |-> 1, exam |-> ExamTitles[1]],
                   [coll |-> ReadCollection, id |-> 2, exam |-> e]}

ResultsInit ==
  /\ OneCandidateInit \/ TwoCandidatesInit
  /\ examDateTime = examDoc
  /\ nextQid = MaxQuestions + 1
  /\ addReq = [s \in AddSlots |-> IdleReq]
  /\ lastOp = [op |-> "none", status |-> 0]
  /\ soloAdds = [e \in Exams |-> FALSE]
  /\ schedReq = [s \in SchedSlots |-> IdleSched]
  /\ serialScheds = [e \in Exams |-> TRUE]
  /\ subDocs = {}
  /\ nextAid = 1
  /\ NInit /\ RInitIdle /\ BInit /\ GInit

ResultsNext ==
  \/ /\ \E c \in candDocs, o \in TallyOrders, a \in AnswerValues,
          sk \in BOOLEAN :
          SubmitAnswer(c.coll, c.id, "answers", o, a, sk)
     /\ UNCHANGED <<qvars, svars, nvars, rvars, gvars>>
  \/ /\ \E q \in questions : DeleteQuestion(q.exam, q.id)
     /\ UNCHANGED <<svars, nvars, cvars, rvars, bvars, gvars>>
  \/ ResultsReadExams /\ UNCHANGED <<qvars, svars, nvars, cvars, bvars, gvars>>
  \/ ResultsReadQuestions /\ UNCHANGED <<qvars, svars, nvars, cvars, bvars, gvars>>
  \/ ResultsReadCandidates /\ UNCHANGED <<qvars, svars, nvars, cvars, bvars, gvars>>
  \/ ResultsReadAnswers /\ UNCHANGED <<qvars, svars, nvars, cvars, bvars, gvars>>
  \/ ResultsStore /\ UNCHANGED <<qvars, svars, nvars, cvars, bvars, gvars>>

ResultsSpec == ResultsInit /\ [][ResultsNext]_vars

(* ----------------------- claims: scheduling --------------------------- *)

FirstColon(t) ==
  IF \E i \in 1..Len(t) : t[i] = ":"
    THEN CHOOSE i \in 1..Len(t) : t[i] = ":" /\ \A j \in 1..(i - 1) : t[j] # ":"
    ELSE 0

NumberOf(ds) ==
  IF Len(ds) = 1 THEN DigitValue(ds[1])
  ELSE 10 * DigitValue(ds[1]) + DigitValue(ds[2])

AllDigits(ds) == \A i \in 1..Len(ds) : IsDigit(ds[i])

\* H:MM AM/PM: an hour of one or two digits from 1 to 12, a colon, a minute of
\* two digits from 00 to 59, at most one white-space character, AM or PM in
\* any case
TimeForm(t) ==
  LET c == FirstColon(t)
      hour == SubSeq(t, 1, c - 1)
      rest == SubSeq(t, c + 1, Len(t))
      suffix == SubSeq(rest, Len(rest) - 1, Len(rest))
  IN  /\ c > 0
      /\ Len(hour) \in 1..2 /\ AllDigits(hour)
      /\ NumberOf(hour) >= 1 /\ NumberOf(hour) <= 12
      /\ Len(rest) \in 4..5
      /\ AllDigits(SubSeq(rest, 1, 2)) /\ NumberOf(SubSeq(rest, 1, 2)) <= 59
      /\ Len(rest) = 5 => IsWhitespace(rest[3])
      /\ <<UpperCase(suffix[1]), UpperCase(suffix[2])>>
           \in {<<"A", "M">>, <<"P", "M">>}

InProgress(e) ==
  \E s \in SchedSlots : schedReq[s].pc = "rtdbWritten" /\ schedReq[s].exam = e

\* every finished setExamSchedule request on e was answered 200
AllSucceeded(e) ==
  \A s \in SchedSlots :
    (schedReq[s].pc = "done" /\ schedReq[s].exam = e) => schedReq[s].status = 200

SamePayload(e) ==
  /\ examDateTime[e].date = examDoc[e].date
  /\ examDateTime[e].startTime = examDoc[e].startTime
  /\ examDateTime[e].endTime = examDoc[e].endTime
  /\ examDateTime[e].marks = examDoc[e].marks
  /\ examDateTime[e].price = examDoc[e].price

\* C13: for every exam, whenever no setExamSchedule request on it
\* is in progress and every finished one succeeded, ExamDateTime/{title} and
\* the dateTime field of the exam document hold the same date, startTime,
\* endTime, marks and price, in any interleaving of the requests' writes.
C13_StoresAgree ==
  \A e \in Exams : (~InProgress(e) /\ AllSucceeded(e)) => SamePayload(e)

\* the two stores do agree on an exam whose requests never overlapped: the
\* disagreement needs a request that begins its writes between the two writes
\* of another one
C13_StoresAgreeWhenSerial ==
  \A e \in Exams :
    (serialScheds[e] /\ ~InProgress(e) /\ AllSucceeded(e)) => SamePayload(e)

(* ------------------- claims: question management ---------------------- *)

\* the position of q among the questions of its exam, in creation order
CreationRank(q) ==
  Cardinality({p \in QuestionsOf(q.exam) : p.id <= q.id})

\* C1: in an exam that started empty and whose addQuestion requests ran one
\* after another with no deleteQuestion in between, the k-th question created
\* has order k, whatever add and delete requests ran on the other exams.
C1_SequentialOrders ==
  \A e \in Exams :
    soloAdds[e] => \A q \in QuestionsOf(e) : q.order = CreationRank(q)

\* two questions of one exam created one after another around a question of
\* another exam, which has itself seen a delete
C1_Witness ==
  \E e \in Exams, f \in Exams :
    /\ e # f /\ soloAdds[e] /\ ~soloAdds[f]
    /\ \E q1 \in QuestionsOf(e), q2 \in QuestionsOf(e), o \in QuestionsOf(f) :
         q1.id < o.id /\ o.id < q2.id

\* C2: no two existing questions of an exam carry the same order.
C2_OrderUnique ==
  \A e \in Exams :
    \A q1 \in QuestionsOf(e), q2 \in QuestionsOf(e) :
      q1.order = q2.order => q1.id = q2.id

\* C9: a deleteQuestion(e, id) step removes Exams/{e}/Questions/{id} and leaves
\* every other question document, of this exam and of the others, as it was.
C9_DeleteFrame ==
  [][\A e \in Exams, id \in QuestionIds :
       DeleteQuestion(e, id) =>
         /\ \A q \in questions : (q.exam # e \/ q.id # id) => q \in questions'
         /\ questions' \subseteq questions
         /\ \A q \in questions' : ~(q.exam = e /\ q.id = id)]_qvars

\* a question has been deleted from an exam that still holds a later one
C9_Witness ==
  /\ lastOp.op = "delete"
  /\ \E q \in questions : q.order > Cardinality(QuestionsOf(q.exam))

\* both handlers have read the count of exam e and neither has written
Racing(s, t) ==
  /\ s # t
  /\ addReq[s].pc = "counted" /\ addReq[t].pc = "counted"
  /\ addReq[s].exam = addReq[t].exam

\* the question document a finished addQuestion request created, if it is
\* still there
Created(s) == {q \in questions : q.id = addReq[s].qid}

\* C12: nothing ties the count read to the insert.  An insert stores the
\* order its handler counted, answers 200 and leaves the other handler's
\* count as it was, also when the other handler has counted the same exam and
\* has not written yet; and an insert whose counted order the other handler
\* has stored meanwhile still succeeds, leaving two questions of the exam with
\* the same order.
C12_RaceDuplicatesOrder ==
  [][\A s \in AddSlots, t \in AddSlots :
       (s # t /\ AddQuestionInsert(s)) =>
         /\ addReq'[s].status = 200
         /\ questions \subseteq questions'
         /\ \E q \in questions' \ questions :
              /\ q.exam = addReq[s].exam
              /\ q.order = addReq[s].nextOrder
              /\ q.id = addReq'[s].qid
         /\ Racing(s, t) =>
              /\ addReq'[t] = addReq[t]
              /\ addReq[t].nextOrder = addReq[s].nextOrder =>
                   \E q \in questions' \ questions :
                     q.order = addReq'[t].nextOrder
         /\ (\E p \in Created(t) :
               /\ addReq[t].pc = "done" /\ addReq[t].status = 200
               /\ p.exam = addReq[s].exam
               /\ p.order = addReq[s].nextOrder) =>
              \E q1 \in questions', q2 \in questions' :
                /\ q1.id # q2.id /\ q1.exam = q2.exam
                /\ q1.order = q2.order]_qvars

\* the only two questions ever created belong to one exam and both carry
\* order 1: each handler counted an empty exam, so the second count was read
\* before the first insert, and both requests were answered 200
C12_Witness ==
  /\ nextQid = 3
  /\ \A s \in AddSlots : addReq[s].pc = "done" /\ addReq[s].status = 200
  /\ \E q1 \in questions, q2 \in questions :
       /\ q1.id = 1 /\ q2.id = 2
       /\ q1.exam = q2.exam
       /\ q1.order = 1 /\ q2.order = 1
       /\ {addReq[s].qid : s \in AddSlots} = {1, 2}

(* --------------------------- claims: reads ---------------------------- *)

CollectionReads ==
  {"getSyllabus", "getConcerns", "getCandidates", "getAllExamResults"}

\* C11: a collection read (list syllabus, list concerns, list candidates,
\* read all results) of an empty or absent collection answers with success and
\* an empty payload, and no collection read answers 404: among the reads, 404
\* comes only from getExamSchedule on an exam with no schedule.
C11_CollectionReadsNever404 ==
  [][ /\ (GetSyllabus /\ syllabus = {}) =>
           (readResp'.status = 200 /\ readResp'.payload = {})
      /\ (GetConcerns /\ concerns = {}) =>
           (readResp'.status = 200 /\ readResp'.payload = {})
      /\ (GetCandidates /\ CollOf(ReadCollection) = {}) =>
           (readResp'.status = 200 /\ readResp'.payload = {})
      /\ (GetAllExamResults /\ resultsTree = {}) =>
           (readResp'.status = 200 /\ readResp'.payload = {})
      /\ (readResp' # readResp /\ readResp'.status = 404) =>
           /\ readResp'.op \notin CollectionReads
           /\ readResp'.op = "getExamSchedule"
           /\ examDateTime[ExamTitles[1]] = NoSchedule
                \/ examDateTime[ExamTitles[2]] = NoSchedule ]_vars

(* ------------------ claims: notifications, syllabus ------------------- *)

\* C10: an update request with a valid body on an id with no record is
\* answered 404 and leaves the store as it was, for notifications and for
\* syllabus records alike.
C10_UpdateAbsentIs404 ==
  [][/\ \A id \in Times, m \in MessageInputs :
          (UpdateNotification(id, m) /\ m # "" /\ ~Exists(notifications, id))
          => (crudResp'.status = 404 /\ notifications' = notifications)
     /\ \A id \in Times, e \in Exams, l \in LinkInputs :
          (UpdateSyllabusRead(id, e, l) /\ l # "" /\ ~Exists(syllabus, id))
          => (crudResp'.status = 404 /\ syllabus' = syllabus)]_nvars

(* ----------------------- claims: bulk delete -------------------------- *)

\* C3: when the bulk delete has answered 200 and no other request wrote in
\* the meantime, the collection the listing and the aggregation read holds no
\* document and no sub-collection document of a candidate is left.
C3_BulkDeleteEmpties ==
  (bulk.pc = "done" /\ bulk.status = 200 /\ bulkQuiet)
    => (CollOf(ReadCollection) = {} /\ subDocs = {})

(* -------------------- claims: results aggregation --------------------- *)

\* the result record the request computed last, for candidate run.cands[idx]
\* from run.questions and run.answers
HasLastResult == run.pc \in {"loop", "done"} /\ run.idx > 0
LastResult == run.results[run.idx]
Persisted(e, cand) == {r \in resultsTree : r.exam = e /\ r.cand = cand}

Remainder(d) ==
  d.wrongAnswers = d.totalQuestions - d.correctAnswers - d.skippedQuestions

\* C4: every result record, in the response list and under
\* Results/{examId}/{candidateId}, has
\* wrongAnswers = totalQuestions - correctAnswers - skippedQuestions.
C4_WrongIsRemainder ==
  /\ \A r \in resultsTree : Remainder(r.data)
  /\ \A i \in 1..Len(run.results) : Remainder(run.results[i])

\* a record of two questions, one skipped and one wrong, answered and stored
C4_Witness ==
  /\ run.pc = "done" /\ run.status = 200
  /\ \E r \in resultsTree :
       /\ r.data.wrongAnswers = 1 /\ r.data.skippedQuestions = 1
       /\ \E i \in 1..Len(run.results) : run.results[i] = r.data

AllCorrect(d) ==
  /\ d.correctAnswers = d.totalQuestions
  /\ d.skippedQuestions = 0 /\ d.wrongAnswers = 0

\* C5 as stated: a candidate who has, for each question, some answer record
\* with the question's order, not skipped, whose answer is correctAnswer, gets
\* correctAnswers = totalQuestions and no skipped or wrong answers.
C5_SomeCorrectAnswerEach ==
  ( /\ HasLastResult
    /\ \A i \in 1..Len(run.questions) : \E j \in 1..Len(run.answers) :
         /\ run.answers[j].order = run.questions[i].order
         /\ ~run.answers[j].skipped
         /\ run.answers[j].answer = run.questions[i].correctAnswer )
  => AllCorrect(LastResult)

\* C5 amended: a candidate whose first answer record (in document order) with
\* each question's order is not skipped and gives correctAnswer gets
\* correctAnswers = totalQuestions and no skipped or wrong answers, in the
\* response and in the stored record.
C5_FirstAnswerCorrectEach ==
  ( /\ HasLastResult
    /\ \A i \in 1..Len(run.questions) : \E j \in 1..Len(run.answers) :
         /\ run.answers[j].order = run.questions[i].order
         /\ \A k \in 1..(j - 1) :
              run.answers[k].order # run.questions[i].order
         /\ ~run.answers[j].skipped
         /\ run.answers[j].answer = run.questions[i].correctAnswer )
  => /\ AllCorrect(LastResult)
     /\ \A r \in Persisted(run.exam, LastResult.registrationNumber) :
          AllCorrect(r.data)

\* two questions, each answered correctly by its own answer record
C5_Witness ==
  /\ HasLastResult
  /\ LastResult.totalQuestions = 2 /\ LastResult.correctAnswers = 2
  /\ Len(run.answers) = 2

\* C6: a candidate with no answer record gets skippedQuestions =
\* totalQuestions, correctAnswers = 0 and wrongAnswers = 0, in the response
\* and in the stored record, and the request ends with status 200.
C6_NoAnswersAllSkipped ==
  (HasLastResult /\ run.answers = <<>>)
  => /\ LastResult.skippedQuestions = LastResult.totalQuestions
     /\ LastResult.correctAnswers = 0 /\ LastResult.wrongAnswers = 0
     /\ \A r \in Persisted(run.exam, LastResult.registrationNumber) :
          r.data = LastResult
     /\ run.pc = "done" => run.status = 200

\* a request has answered 200 with two questions, its last candidate having
\* no answer record
C6_Witness ==
  /\ run.pc = "done" /\ run.status = 200 /\ run.idx > 0
  /\ run.answers = <<>>
  /\ LastResult.totalQuestions = 2 /\ LastResult.skippedQuestions = 2

\* C7: under Results there is one record per (exam, candidate), and after a
\* request has answered it is the record that request computed for the pair.
C7_LatestOnly ==
  /\ \A r1 \in resultsTree, r2 \in resultsTree :
       (r1.exam = r2.exam /\ r1.cand = r2.cand) => r1 = r2
  /\ (run.pc = "done" /\ run.status = 200) =>
       \A i \in 1..Len(run.results) :
         \E r \in Persisted(run.exam, run.results[i].registrationNumber) :
           r.data = run.results[i]

\* the second request has answered, for two candidates, one of them with a
\* correct answer, after a question was deleted
C7_Witness ==
  /\ run.pc = "done" /\ run.status = 200 /\ run.seq = 2
  /\ Len(run.results) = 2
  /\ lastOp.op = "delete"
  /\ \E r \in resultsTree :
       r.data.totalQuestions = 1 /\ r.data.correctAnswers = 1

\* the answer records that match question q: the first one, in the order the
\* snapshot lists them, carrying the order of q
Matching(q) ==
  {j \in 1..Len(run.answers) :
     /\ run.answers[j].order = q.order
     /\ \A k \in 1..(j - 1) : run.answers[k].order # q.order}

Unanswered(q) == \A j \in 1..Len(run.answers) : run.answers[j].order # q.order

SkippedClass(q) ==
  Unanswered(q) \/ \E j \in Matching(q) : run.answers[j].skipped
CorrectClass(q) ==
  \E j \in Matching(q) :
    ~run.answers[j].skipped /\ run.answers[j].answer = q.correctAnswer
WrongClass(q) ==
  \E j \in Matching(q) :
    ~run.answers[j].skipped /\ run.answers[j].answer # q.correctAnswer

CountOf(Class(_)) ==
  Cardinality({i \in 1..Len(run.questions) : Class(run.questions[i])})

\* C14: in the record computed for a candidate, skippedQuestions counts the
\* questions with no answer record of their order or whose matching record is
\* flagged skipped (whatever its answer), correctAnswers those whose matching
\* unskipped record gives correctAnswer, and wrongAnswers the others; so the
\* three are between 0 and totalQuestions, add up to it, and a question whose
\* order no answer record carries is counted as skipped, never as wrong.
C14_ThreeClasses ==
  HasLastResult =>
    /\ LastResult.totalQuestions = Len(run.questions)
    /\ LastResult.skippedQuestions = CountOf(SkippedClass)
    /\ LastResult.correctAnswers = CountOf(CorrectClass)
    /\ LastResult.wrongAnswers = CountOf(WrongClass)
    /\ \A f \in {"skippedQuestions", "correctAnswers", "wrongAnswers"} :
         LastResult[f] \in 0..LastResult.totalQuestions
    /\ LastResult.skippedQuestions >= CountOf(Unanswered)
    /\ LastResult.wrongAnswers <= Len(run.questions) - CountOf(Unanswered)
    /\ \A r \in Persisted(run.exam, LastResult.registrationNumber) :
         r.data = LastResult

\* two questions: one whose record is flagged skipped although its answer is
\* correctAnswer, counted as skipped, and one answered wrongly
C14_Witness ==
  /\ HasLastResult
  /\ Len(run.questions) = 2
  /\ \E i \in 1..2 : \E j \in Matching(run.questions[i]) :
       /\ run.answers[j].skipped
       /\ run.answers[j].answer = run.questions[i].correctAnswer
  /\ \E i \in 1..2 : WrongClass(run.questions[i])
  /\ LastResult.skippedQuestions = 1 /\ LastResult.wrongAnswers = 1
  /\ LastResult.correctAnswers = 0

=============================================================================
